---------------------------- MODULE Spec2Model ----------------------------
(***************************************************************************)
(* Gold & Silver price alert dashboard (src/app.py, src/utils.py).         *)
(*                                                                         *)
(* The page script is re-executed from the top on every interaction and    *)
(* its functions share no state, so the model records one function call at *)
(* a time: pc says whether a call is in progress, fn which function was    *)
(* called, args the arguments together with everything the environment     *)
(* answered during the call (environment variables, HTTP responses, the    *)
(* clock), and ret what the call returned or raised.                       *)
(*                                                                         *)
(* The alert history (src/utils.py) is the one thing that outlives a call: *)
(* file is the content of alert_history.json.  save_alert_history is       *)
(* modelled twice from the same operators: as one call at a time, and as   *)
(* several calls in progress at once (writers), each stepping through its  *)
(* read, its open for writing and its dump; audit records which of those   *)
(* calls returned True and whether two of them ever overlapped.            *)
(*                                                                         *)
(* Python floats are modelled as exact rationals [n, d] in lowest terms    *)
(* with d > 0; rounding is not modelled.                                   *)
(***************************************************************************)
EXTENDS Integers, Sequences, FiniteSets, TLC

VARIABLES pc, fn, args, ret, file, writers, audit

\* alert_history.json (file), the save_alert_history calls in progress
\* (writers) and the record of what those calls did (audit)
store == <<file, writers, audit>>

vars == <<pc, fn, args, ret, file, writers, audit>>

---------------------------------------------------------------------------
(* Bounds of the model.                                                    *)

\* longest price series handed to calculate_stats
MaxLen == 3
\* largest integer price in a series handed to calculate_stats
MaxPrice == 3
\* get_trend is applied to change_pct in quarter percents within +-MaxTrendPct
MaxTrendPct == 3
\* the day on which the script runs, 2025-01-01 as a day number
FirstDay == 20089
\* the positive rate the exchange-rate API may quote
MaxRate == 2
\* the positive quote the metals API may give
MaxQuote == 2
\* the most choices one completion holds
MaxChoices == 2
\* longest price list handed to calculate_rsi, the default period aside
MaxRsiLen == 4
\* largest period handed to calculate_rsi, the default period aside
MaxPeriod == 2
\* most records alert_history.json holds when a call starts
MaxRecords == 3
\* the save_alert_history calls that may be in progress at once
MaxWriters == 2
\* most save_alert_history calls started while several may be in progress
MaxCalls == 3

---------------------------------------------------------------------------
(* Rational arithmetic standing for Python's float arithmetic.             *)

Abs(x) == IF x < 0 THEN -x ELSE x

RECURSIVE Gcd(_, _)
Gcd(a, b) == IF b = 0 THEN a ELSE Gcd(b, a % b)

\* the rational n/d in lowest terms, d # 0
Rat(n, d) ==
    LET g == Gcd(Abs(n), Abs(d))
        s == IF d < 0 THEN -1 ELSE 1
    IN  [n |-> (s * n) \div g, d |-> (s * d) \div g]

Int2Rat(k) == [n |-> k, d |-> 1]

RNeg(a) == [n |-> -a.n, d |-> a.d]

RAdd(a, b) ==
    LET g == Gcd(a.d, b.d)
    IN  Rat(a.n * (b.d \div g) + b.n * (a.d \div g), (a.d \div g) * b.d)

RSub(a, b) == RAdd(a, RNeg(b))

RMul(a, b) ==
    LET g1 == Gcd(Abs(a.n), b.d)
        g2 == Gcd(Abs(b.n), a.d)
    IN  [n |-> (a.n \div g1) * (b.n \div g2), d |-> (a.d \div g2) * (b.d \div g1)]

\* a / b for b # 0
RDiv(a, b) == RMul(a, Rat(b.d, b.n))

RLe(a, b) ==
    LET g == Gcd(a.d, b.d)
    IN  a.n * (b.d \div g) <= b.n * (a.d \div g)

RLt(a, b) == ~RLe(b, a)

RGe(a, b) == RLe(b, a)

RGt(a, b) == ~RLe(a, b)

RZero == Int2Rat(0)

---------------------------------------------------------------------------
(* Statistics engine, trend classifier, alert evaluator (src/app.py).      *)

RECURSIVE SeqMin(_)
SeqMin(s) ==
    IF Len(s) = 1 THEN s[1]
    ELSE LET m == SeqMin(Tail(s)) IN IF RLe(s[1], m) THEN s[1] ELSE m

RECURSIVE SeqMax(_)
SeqMax(s) ==
    IF Len(s) = 1 THEN s[1]
    ELSE LET m == SeqMax(Tail(s)) IN IF RGe(s[1], m) THEN s[1] ELSE m

RECURSIVE SeqSum(_)
SeqSum(s) == IF s = <<>> THEN RZero ELSE RAdd(s[1], SeqSum(Tail(s)))

\* calculate_stats with the change taken relative to the last price instead
\* of the first
calculate_stats_rel_last(price) ==
    LET first == price[1]
        last  == price[Len(price)]
    IN  [current    |-> last,
         low        |-> SeqMin(price),
         high       |-> SeqMax(price),
         avg        |-> RDiv(SeqSum(price), Int2Rat(Len(price))),
         change     |-> RSub(last, first),
         change_pct |-> IF last # RZero
                        THEN RMul(RDiv(RSub(last, first), last), Int2Rat(100))
                        ELSE RZero]

\* calculate_stats with the period low taken from the first price instead of
\* the minimum
calculate_stats_low_first(price) ==
    LET first == price[1]
        last  == price[Len(price)]
    IN  [current    |-> last,
         low        |-> first,
         high       |-> SeqMax(price),
         avg        |-> RDiv(SeqSum(price), Int2Rat(Len(price))),
         change     |-> RSub(last, first),
         change_pct |-> IF first # RZero
                        THEN RMul(RDiv(RSub(last, first), first), Int2Rat(100))
                        ELSE RZero]

\* calculate_stats(data) on data['price'], a non-empty series.  The
\* 'volatility' entry (a sample standard deviation, irrational in general)
\* is read by no property here and is left out of the record.
calculate_stats(price) ==
    LET first == price[1]
        last  == price[Len(price)]
    IN  [current    |-> last,
         low        |-> SeqMin(price),
         high       |-> SeqMax(price),
         avg        |-> RDiv(SeqSum(price), Int2Rat(Len(price))),
         change     |-> RSub(last, first),
         change_pct |-> IF first # RZero
                        THEN RMul(RDiv(RSub(last, first), first), Int2Rat(100))
                        ELSE RZero]

\* get_trend with comparisons that are not strict
get_trend_inclusive(change_pct) ==
    IF RGe(change_pct, Int2Rat(2)) THEN [label |-> "Strong Upward", color |-> "green"]
    ELSE IF RGe(change_pct, Rat(1, 2)) THEN [label |-> "Upward", color |-> "lightgreen"]
    ELSE IF RLe(change_pct, Int2Rat(-2)) THEN [label |-> "Strong Downward", color |-> "red"]
    ELSE IF RLe(change_pct, Rat(-1, 2)) THEN [label |-> "Downward", color |-> "lightcoral"]
    ELSE [label |-> "Stable", color |-> "gray"]

get_trend(change_pct) ==
    IF RGt(change_pct, Int2Rat(2)) THEN [label |-> "Strong Upward", color |-> "green"]
    ELSE IF RGt(change_pct, Rat(1, 2)) THEN [label |-> "Upward", color |-> "lightgreen"]
    ELSE IF RLt(change_pct, Int2Rat(-2)) THEN [label |-> "Strong Downward", color |-> "red"]
    ELSE IF RLt(change_pct, Rat(-1, 2)) THEN [label |-> "Downward", color |-> "lightcoral"]
    ELSE [label |-> "Stable", color |-> "gray"]

\* the price position of the dashboard's progress bar
price_position(stats) ==
    IF stats.high # stats.low
    THEN RDiv(RSub(stats.current, stats.low), RSub(stats.high, stats.low))
    ELSE RZero

\* check_alerts with strict comparisons: the threshold itself does not fire
check_alerts_strict(metal, stats, threshold, alert_type) ==
    IF alert_type = "Price Drop" /\ RLt(stats.change_pct, RNeg(threshold))
    THEN [fired |-> TRUE, direction |-> "drop"]
    ELSE IF alert_type = "Price Rise" /\ RGt(stats.change_pct, threshold)
    THEN [fired |-> TRUE, direction |-> "rise"]
    ELSE IF alert_type = "Both" /\ RLt(stats.change_pct, RNeg(threshold))
    THEN [fired |-> TRUE, direction |-> "drop"]
    ELSE IF alert_type = "Both" /\ RGt(stats.change_pct, threshold)
    THEN [fired |-> TRUE, direction |-> "rise"]
    ELSE [fired |-> FALSE, direction |-> "None"]

check_alerts(metal, stats, threshold, alert_type) ==
    IF alert_type = "Price Drop" /\ RLe(stats.change_pct, RNeg(threshold))
    THEN [fired |-> TRUE, direction |-> "drop"]
    ELSE IF alert_type = "Price Rise" /\ RGe(stats.change_pct, threshold)
    THEN [fired |-> TRUE, direction |-> "rise"]
    ELSE IF alert_type = "Both"
    THEN IF RLe(stats.change_pct, RNeg(threshold))
         THEN [fired |-> TRUE, direction |-> "drop"]
         ELSE IF RGe(stats.change_pct, threshold)
         THEN [fired |-> TRUE, direction |-> "rise"]
         ELSE [fired |-> FALSE, direction |-> "None"]
    ELSE [fired |-> FALSE, direction |-> "None"]

---------------------------------------------------------------------------
(* Python values met in JSON payloads: a number, null, a string; Absent    *)
(* stands for a key the object does not hold.                              *)

Num(r) == [t |-> "num", v |-> r]
PyNone == [t |-> "None", v |-> RZero]
PyStr  == [t |-> "str", v |-> RZero]
Absent == [t |-> "absent", v |-> RZero]

\* what a call does: it returns a value or lets an exception escape;
\* notices are the st.warning / st.info messages it showed
Return(value, notices) == [kind |-> "return", value |-> value, notices |-> notices]
Raise(exc) == [kind |-> "raise", value |-> exc, notices |-> <<>>]

---------------------------------------------------------------------------
(* Dates.  datetime.now() is a day number (days since 1970-01-01);         *)
(* strftime('%Y-%m-%d') gives the zero-padded text, modelled as the triple *)
(* <<year, month, day>>, and Python compares such texts lexicographically. *)

strftime(z) ==
    LET zz  == z + 719468
        era == zz \div 146097
        doe == zz - era * 146097
        yoe == (doe - doe \div 1460 + doe \div 36524 - doe \div 146096) \div 365
        doy == doe - (365 * yoe + yoe \div 4 - yoe \div 100)
        mp  == (5 * doy + 2) \div 153
        d   == doy - (153 * mp + 2) \div 5 + 1
        m   == IF mp < 10 THEN mp + 3 ELSE mp - 9
        y   == yoe + era * 400 + (IF m <= 2 THEN 1 ELSE 0)
    IN  <<y, m, d>>

\* a < b for two date texts
StrLt(a, b) ==
    \/ a[1] < b[1]
    \/ a[1] = b[1] /\ a[2] < b[2]
    \/ a[1] = b[1] /\ a[2] = b[2] /\ a[3] < b[3]

\* sorted(keys): the keys of a dict in ascending order
RECURSIVE sorted(_)
sorted(keys) ==
    IF keys = {} THEN <<>>
    ELSE LET least == CHOOSE k \in keys : \A o \in keys : o = k \/ StrLt(k, o)
         IN  <<least>> \o sorted(keys \ {least})

---------------------------------------------------------------------------
(* Exchange-rate provider (src/app.py, get_usd_inr_exchange_rate).         *)

\* the fallback USD/INR rate 83.5
FallbackRate == Rat(167, 2)

HTTP_OK == 200

\* the body of the try block: the outcome before the except clause
exchange_rate_try(env) ==
    IF ~env.key
    THEN Return(Num(FallbackRate), <<"EXCHANGERATE_API_KEY not found">>)
    ELSE IF env.http = "exception"
    THEN Raise("RequestException")
    ELSE IF env.status = HTTP_OK
    THEN IF env.body.json = "invalid" THEN Raise("JSONDecodeError")
         ELSE IF ~env.body.conversion_rates THEN Raise("KeyError")
         ELSE IF env.body.inr = Absent THEN Raise("KeyError")
         ELSE Return(env.body.inr, <<>>)
    ELSE Return(Num(FallbackRate), <<"ExchangeRate-API returned status">>)

get_usd_inr_exchange_rate(env) ==
    LET out == exchange_rate_try(env)
    IN  IF out.kind = "raise"
        THEN Return(Num(FallbackRate), <<"ExchangeRate-API Error">>)
        ELSE out

---------------------------------------------------------------------------
(* Mock data generator (src/app.py, generate_mock_data).                   *)

\* days = 4
Days == 4

Lower(metal) ==
    IF metal = "Gold" THEN "gold" ELSE IF metal = "Silver" THEN "silver" ELSE metal

\* base_prices.get(metal.lower(), 2050)
BasePrice(metal) ==
    IF Lower(metal) = "silver" THEN Rat(49, 2) ELSE Int2Rat(2050)

\* np.random.seed(42); np.random.randn(4) is 0.4967, -0.1383, 0.6477,
\* 1.5230: the same four draws on every call, rounded here to eighths
Randn == <<Rat(1, 2), Rat(-1, 8), Rat(5, 8), Rat(3, 2)>>

\* np.cumsum
cumsum(s) == [k \in 1..Len(s) |-> SeqSum(SubSeq(s, 1, k))]

BandHigh == Rat(203, 200)
BandLow  == Rat(197, 200)

mock_walk(base_price, walk) == [k \in 1..Days |-> RAdd(base_price, walk[k])]

\* base_price + np.cumsum(np.random.randn(days) * (base_price * 0.01))
mock_prices(base_price) ==
    mock_walk(base_price,
              cumsum([k \in 1..Days |->
                         RMul(Randn[k], RMul(base_price, Rat(1, 100)))]))

\* the prices and bands of the walk from base_price
mock_bands(prices) ==
    [price |-> prices,
     high  |-> [k \in 1..Len(prices) |-> RMul(prices[k], BandHigh)],
     low   |-> [k \in 1..Len(prices) |-> RMul(prices[k], BandLow)]]

\* The walk is reseeded on every call and so depends on the metal and the
\* currency alone: it is worked out once for each of them.
MockWalks ==
    [m \in {"gold", "silver"}, c \in {"USD", "INR"} |->
        mock_bands(mock_prices(IF c = "INR"
                               THEN RMul(BasePrice(m), FallbackRate)
                               ELSE BasePrice(m)))]

\* clock[k] is what datetime.now() reads for the k-th date of the list,
\* the one of i = days - k + 1
generate_mock_data(metal, currency, clock) ==
    [date  |-> [k \in 1..Days |-> strftime(clock[k] - (Days - k + 1))],
     price |-> MockWalks[Lower(metal), currency].price,
     high  |-> MockWalks[Lower(metal), currency].high,
     low   |-> MockWalks[Lower(metal), currency].low]

---------------------------------------------------------------------------
(* Historical price provider (src/app.py, get_historical_data).            *)

\* "XAU" if metal.lower() == "gold" else "XAG"
Symbol(metal) == IF Lower(metal) = "gold" THEN "XAU" ELSE "XAG"

\* f"USD{symbol}"
UsdSymbol(symbol) == IF symbol = "XAU" THEN "USDXAU" ELSE "USDXAG"

\* dict.get(key, default)
Get(dict, key, default) == IF key \in DOMAIN dict THEN dict[key] ELSE default

\* The price of one date, whose entry of data['rates'] maps key names to
\* values: a value, PyNone for a date to drop, or the TypeError of
\* comparing a non-number with 0.
ResolvePrice(entry, symbol) ==
    IF UsdSymbol(symbol) \in DOMAIN entry THEN entry[UsdSymbol(symbol)]
    ELSE IF Get(entry, symbol, Num(RZero)).t # "num"
    THEN [t |-> "TypeError", v |-> RZero]
    ELSE IF RGt(Get(entry, symbol, Num(RZero)).v, RZero)
    THEN Num(RDiv(Int2Rat(1), Get(entry, symbol, Num(RZero)).v))
    ELSE PyNone

\* prices = [...] of the loop over the sorted dates
resolve_prices(by_date, dates, symbol) ==
    [i \in 1..Len(dates) |-> ResolvePrice(by_date[dates[i]], symbol)]

\* zip(dates, prices)
zip(dates, prices) == [i \in 1..Len(dates) |-> <<dates[i], prices[i]>>]

IsNotNone(pair) == pair[2] # PyNone

\* the conversion and the bands, on the dates and prices kept; rate is
\* what get_usd_inr_exchange_rate did (a rate of 1 stands for no conversion)
with_bands(dates, prices, notices) ==
    Return([date  |-> dates,
            price |-> prices,
            high  |-> [j \in 1..Len(prices) |-> RMul(prices[j], BandHigh)],
            low   |-> [j \in 1..Len(prices) |-> RMul(prices[j], BandLow)]],
           notices)

convert_and_band(vdates, vprices, rate) ==
    IF rate.kind = "raise" THEN rate
    ELSE IF rate.value.t # "num" \/ \E j \in 1..Len(vprices) : vprices[j].t # "num"
    THEN Raise("TypeError")
    ELSE with_bands(vdates,
                    [j \in 1..Len(vprices) |-> RMul(vprices[j].v, rate.value.v)],
                    rate.notices)

\* valid_data and what follows it
keep_valid(dates, prices, valid_data, currency, env) ==
    IF \E i \in 1..Len(prices) : prices[i].t = "TypeError"
    THEN Raise("TypeError")
    ELSE IF valid_data = <<>> THEN Raise("ValueError")
    ELSE convert_and_band([j \in 1..Len(valid_data) |-> valid_data[j][1]],
                          [j \in 1..Len(valid_data) |-> valid_data[j][2]],
                          IF currency = "INR"
                          THEN get_usd_inr_exchange_rate(env.exch)
                          ELSE Return(Num(Int2Rat(1)), <<>>))

read_rates(dates, prices, currency, env) ==
    keep_valid(dates, prices, SelectSeq(zip(dates, prices), IsNotNone),
               currency, env)

\* the body of the try block: the outcome before the except clause
historical_data_try(metal, currency, env) ==
    IF ~env.key
    THEN Return(generate_mock_data(metal, currency, env.clock),
                <<"METALPRICEAPI_KEY not found">>)
    ELSE IF env.http = "exception" THEN Raise("RequestException")
    ELSE IF env.status # HTTP_OK
    THEN Return(generate_mock_data(metal, currency, env.clock),
                <<"MetalpriceAPI returned status">>)
    ELSE IF env.body.json = "invalid" THEN Raise("JSONDecodeError")
    ELSE IF env.body.success # "true" THEN Raise("ValueError")
    ELSE IF ~env.body.rates THEN Raise("KeyError")
    ELSE LET dates == sorted(DOMAIN env.body.by_date)
         IN  read_rates(dates,
                        resolve_prices(env.body.by_date, dates, Symbol(metal)),
                        currency, env)

\* get_historical_data without its except clause
get_historical_data_uncaught(metal, currency, env) ==
    historical_data_try(metal, currency, env)

get_historical_data(metal, currency, env) ==
    LET out == historical_data_try(metal, currency, env)
    IN  IF out.kind = "raise"
        THEN Return(generate_mock_data(metal, currency, env.clock),
                    <<"MetalpriceAPI Error">>)
        ELSE out

---------------------------------------------------------------------------
(* Insight generator (src/app.py, get_insights_from_cerebras).             *)

\* a returned text: which of the function's strings it is, and the part
\* the string embeds (the exception text, change_pct, the completion)
Text(which, detail) == [text |-> which, detail |-> detail]

NoDetail == [none |-> TRUE]

\* str.lower() on the exception texts of the model
StrLower(msg) == IF msg = "Pydantic is not defined" THEN "pydantic is not defined" ELSE msg

\* "pydantic" in text
HasPydantic(text) == text = "pydantic is not defined"

\* the body of the try block; env.sdk is what the import, the client and
\* the completion call do
insights_try(query, metal, stats, env) ==
    IF env.sdk.outcome = "raise" THEN Raise(env.sdk.exc)
    ELSE IF ~env.sdk.has_choices \/ env.sdk.choices = <<>>
    THEN Return(Text("Error: Invalid response structure from Cerebras API.", NoDetail),
                <<"sdk">>)
    ELSE IF env.sdk.choices[1] = Absent
    THEN Raise([type |-> "AttributeError", msg |-> "object has no attribute"])
    ELSE Return(Text("content", env.sdk.choices[1]), <<"sdk">>)

\* get_insights_from_cerebras with the pydantic fallback taken for every
\* exception type
get_insights_any_type(query, metal, stats, env) ==
    IF ~env.key
    THEN Return(Text("CEREBRAS_API_KEY not found. Cannot generate insights.", NoDetail),
                <<>>)
    ELSE LET out == insights_try(query, metal, stats, env)
         IN  IF out.kind # "raise" THEN out
             ELSE IF HasPydantic(StrLower(out.value.msg))
             THEN Return(Text("Mock analysis", stats.change_pct),
                         <<"sdk", "Pydantic issue detected">>)
             ELSE Return(Text("Error querying Cerebras", out.value), <<"sdk">>)

get_insights_from_cerebras(query, metal, stats, env) ==
    IF ~env.key
    THEN Return(Text("CEREBRAS_API_KEY not found. Cannot generate insights.", NoDetail),
                <<>>)
    ELSE LET out == insights_try(query, metal, stats, env)
         IN  IF out.kind # "raise" THEN out
             ELSE IF out.value.type = "NameError"
             THEN IF HasPydantic(StrLower(out.value.msg))
                  THEN Return(Text("Mock analysis", stats.change_pct),
                              <<"sdk", "Pydantic issue detected">>)
                  ELSE Return(Text("NameError", out.value), <<"sdk">>)
             ELSE Return(Text("Error querying Cerebras", out.value), <<"sdk">>)

---------------------------------------------------------------------------
(* Relative Strength Index (src/utils.py).                                 *)

\* the default of the period parameter
DefaultPeriod == 14

\* prices[i] - prices[i-1] for i in range(1, len(prices))
Deltas(prices) ==
    [i \in 1..(IF Len(prices) = 0 THEN 0 ELSE Len(prices) - 1) |->
        RSub(prices[i + 1], prices[i])]

Gains(deltas) ==
    [i \in 1..Len(deltas) |-> IF RGt(deltas[i], RZero) THEN deltas[i] ELSE RZero]

Losses(deltas) ==
    [i \in 1..Len(deltas) |->
        IF RLt(deltas[i], RZero) THEN RNeg(deltas[i]) ELSE RZero]

\* sum(s), adding the two halves of s
RECURSIVE SumOver(_, _, _)
SumOver(s, lo, hi) ==
    IF lo > hi THEN RZero
    ELSE IF lo = hi THEN s[lo]
    ELSE LET mid == (lo + hi) \div 2
         IN  RAdd(SumOver(s, lo, mid), SumOver(s, mid + 1, hi))

sum(s) == SumOver(s, 1, Len(s))

\* the slice s[-n:] for n >= 1: the last n elements, all of s if it has fewer
LastN(s, n) == SubSeq(s, IF Len(s) > n THEN Len(s) - n + 1 ELSE 1, Len(s))

\* calculate_rsi averaging the leading period deltas instead of the trailing
calculate_rsi_leading(prices, period) ==
    IF Len(prices) < period + 1 THEN PyNone
    ELSE LET deltas   == Deltas(prices)
             avg_gain == RDiv(sum(SubSeq(Gains(deltas), 1, period)),
                              Int2Rat(period))
             avg_loss == RDiv(sum(SubSeq(Losses(deltas), 1, period)),
                              Int2Rat(period))
         IN  IF avg_loss = RZero THEN Num(Int2Rat(100))
             ELSE LET rs == RDiv(avg_gain, avg_loss)
                  IN  Num(RSub(Int2Rat(100),
                               RDiv(Int2Rat(100), RAdd(Int2Rat(1), rs))))

\* calculate_rsi(prices, period), period >= 1
calculate_rsi(prices, period) ==
    IF Len(prices) < period + 1 THEN PyNone
    ELSE LET deltas   == Deltas(prices)
             avg_gain == RDiv(sum(LastN(Gains(deltas), period)),
                              Int2Rat(period))
             avg_loss == RDiv(sum(LastN(Losses(deltas), period)),
                              Int2Rat(period))
         IN  IF avg_loss = RZero THEN Num(Int2Rat(100))
             ELSE LET rs == RDiv(avg_gain, avg_loss)
                  IN  Num(RSub(Int2Rat(100),
                               RDiv(Int2Rat(100), RAdd(Int2Rat(1), rs))))

---------------------------------------------------------------------------
(* Alert history (src/utils.py).                                           *)

\* the Python objects handed to save_alert_history: a str, a float, or a
\* datetime object; s is the text the object prints as
Str(s)      == [t |-> "str", s |-> s]
Float(s)    == [t |-> "float", s |-> s]
Datetime(s) == [t |-> "datetime", s |-> s]

\* JSON tokens; JCut marks the place where a text breaks off
JString(s) == [j |-> "string", s |-> s]
JNumber(s) == [j |-> "number", s |-> s]
JCut       == [j |-> "cut", s |-> ""]

\* what the default JSONEncoder can write
Serializable(v) == v.t \in {"str", "float"}

encode(v) == IF v.t = "str" THEN JString(v.s) ELSE JNumber(v.s)

decode(j) == IF j.j = "string" THEN Str(j.s) ELSE Float(j.s)

\* the keys of one history entry, in insertion order
Keys == <<"metal", "price", "alert_type", "timestamp">>

KeySet == {Keys[i] : i \in DOMAIN Keys}

\* the dict appended to history
record(metal, price, alert_type, timestamp) ==
    [k \in KeySet |->
        CASE k = "metal"      -> metal
          [] k = "price"      -> price
          [] k = "alert_type" -> alert_type
          [] k = "timestamp"  -> timestamp]

\* json.dump(history) when every value can be written: an array of objects
dumps(history) ==
    [i \in 1..Len(history) |-> [k \in KeySet |-> encode(history[i][k])]]

\* json.load of an array of objects
loads(items) ==
    [i \in 1..Len(items) |-> [k \in KeySet |-> decode(items[i][k])]]

\* the least i whose entry holds a value that cannot be written, 0 if none
RECURSIVE FirstUnwritable(_, _)
FirstUnwritable(history, i) ==
    IF i > Len(history) THEN 0
    ELSE IF \E k \in KeySet : ~Serializable(history[i][k]) THEN i
    ELSE FirstUnwritable(history, i + 1)

\* the least position in Keys whose value in entry cannot be written
RECURSIVE FirstBadKey(_, _)
FirstBadKey(entry, n) ==
    IF Serializable(entry[Keys[n]]) THEN FirstBadKey(entry, n + 1) ELSE n

\* what json.dump has written when it raises TypeError at entry bad: the
\* entries before it, and of entry bad the values before the unwritable one
dumped_before_error(history, bad) ==
    LET n == FirstBadKey(history[bad], 1)
    IN  [i \in 1..bad |->
            IF i < bad THEN [k \in KeySet |-> encode(history[i][k])]
            ELSE [k \in KeySet |->
                    IF \E m \in 1..(n - 1) : Keys[m] = k
                    THEN encode(history[bad][k]) ELSE JCut]]

\* the states of alert_history.json: no such file, or a text that is an
\* array of objects, zero bytes ("empty"), an array that breaks off ("cut")
\* or one text written over a longer one ("garbled")
Missing == [exists |-> FALSE, json |-> "none", items |-> <<>>]
FileWith(json, items) == [exists |-> TRUE, json |-> json, items |-> items]
ZeroBytes == FileWith("empty", <<>>)

\* the length of the texts of the model
Chars(text) ==
    CASE text = "gold" -> 4
      [] text = "silver" -> 6
      [] text = "drop" -> 4
      [] text = "2050.5" -> 6
      [] text = "2025-01-01 10:00:00" -> 19
      [] OTHER -> 0

\* the characters json.dump(..., indent=2) writes around the values: "[" and
\* "]" with a line break, and per entry the keys, quotes, indentation and
\* separators; a text that breaks off at the timestamp lacks the closing ones
ArrayOverhead == 2
EntryOverhead == 83
CutShort == 8

RECURSIVE EntriesSize(_)
EntriesSize(items) ==
    IF items = <<>> THEN 0
    ELSE EntryOverhead
         + Chars(items[1]["metal"].s) + Chars(items[1]["price"].s)
         + Chars(items[1]["alert_type"].s) + Chars(items[1]["timestamp"].s)
         + EntriesSize(Tail(items))

\* the size of the file in characters
Size(f) ==
    IF ~f.exists \/ f.json = "empty" THEN 0
    ELSE ArrayOverhead + EntriesSize(f.items)
         - (IF f.json = "cut" THEN CutShort ELSE 0)

\* the environment of one call: whether the file may be read and written
Readable == [read |-> "ok", write |-> "ok"]

\* read_history that starts from an empty list whatever the file holds
read_history_fresh(f, env) ==
    IF ~f.exists THEN Return(<<>>, <<>>)
    ELSE IF env.read = "denied" THEN Raise("PermissionError")
    ELSE IF f.json # "array" THEN Raise("JSONDecodeError")
    ELSE Return(<<>>, <<>>)

\* lines 53-57: history is the parsed file, or [] if there is no file
read_history(f, env) ==
    IF ~f.exists THEN Return(<<>>, <<>>)
    ELSE IF env.read = "denied" THEN Raise("PermissionError")
    ELSE IF f.json # "array" THEN Raise("JSONDecodeError")
    ELSE Return(loads(f.items), <<>>)

\* line 66: open(history_file, 'w') creates or truncates the file
open_for_writing(f, env) ==
    IF env.write = "denied"
    THEN [kind |-> "raise", exc |-> "PermissionError", file |-> f]
    ELSE [kind |-> "return", exc |-> "none", file |-> ZeroBytes]

\* a text written from the start of the file over what the file holds: the
\* tail of a longer text stays behind it
written_over(f, json, items) ==
    IF Size(f) > Size(FileWith(json, items))
    THEN FileWith("garbled", items)
    ELSE FileWith(json, items)

\* line 67 and the end of the with block: json.dump(history, f, indent=2)
\* into the file opened at line 66, f being what the file holds by then
dump_history(f, history) ==
    LET bad == FirstUnwritable(history, 1)
    IN  IF bad = 0
        THEN [kind |-> "return", exc |-> "none",
              file |-> written_over(f, "array", dumps(history))]
        ELSE [kind |-> "raise", exc |-> "TypeError",
              file |-> written_over(f, "cut",
                                    dumped_before_error(history, bad))]

\* the notice printed by the except clause of save_alert_history
SaveFailed == <<"Error saving alert history">>

\* save_alert_history(metal, price, alert_type, timestamp) run from its
\* first line to its return with f in the file: what it returns and what it
\* leaves in the file
save_alert_history(f, metal, price, alert_type, timestamp, env) ==
    LET rd == read_history(f, env)
    IN  IF rd.kind = "raise"
        THEN [ret |-> Return(FALSE, SaveFailed), file |-> f]
        ELSE LET history == Append(rd.value,
                                   record(metal, price, alert_type, timestamp))
                 op == open_for_writing(f, env)
             IN  IF op.kind = "raise"
                 THEN [ret |-> Return(FALSE, SaveFailed), file |-> op.file]
                 ELSE LET wr == dump_history(op.file, history)
                      IN  IF wr.kind = "raise"
                          THEN [ret |-> Return(FALSE, SaveFailed),
                                file |-> wr.file]
                          ELSE [ret |-> Return(TRUE, <<>>), file |-> wr.file]

\* load_alert_history()
load_alert_history(f, env) ==
    LET rd == read_history(f, env)
    IN  IF rd.kind = "raise"
        THEN Return(<<>>, <<"Error loading alert history">>)
        ELSE rd

---------------------------------------------------------------------------
(* The inputs of the calls.                                                *)

Metals == {"gold", "silver"}

Currencies == {"USD", "INR"}

\* the alert-mode radio of the sidebar
AlertTypes == {"Price Drop", "Price Rise", "Both"}

\* the threshold slider: 1.0 to 10.0 in steps of 0.5
SliderMin == 1
SliderMax == 10
Thresholds == {Rat(k, 2) : k \in (2 * SliderMin)..(2 * SliderMax)}

\* change_pct values in tenths of a percent, one percent beyond the slider
AlertPcts == {Rat(k, 10) : k \in (-10 * (SliderMax + 1))..(10 * (SliderMax + 1))}

\* change_pct values in quarter percents
TrendPcts == {Rat(k, 4) : k \in (-4 * MaxTrendPct)..(4 * MaxTrendPct)}

PriceVals == {Int2Rat(v) : v \in 0..MaxPrice}

PriceSeries == UNION {[1..len -> PriceVals] : len \in 1..MaxLen}

\* the series behind the progress bar: live series may hold negative quotes
SignedPriceVals == {Int2Rat(v) : v \in -1..MaxPrice}

SignedPriceSeries == UNION {[1..len -> SignedPriceVals] : len \in 1..MaxLen}

\* the periods handed to calculate_rsi
Periods == (1..MaxPeriod) \cup {DefaultPeriod}

\* price lists long enough for the default period: a steady rise, a flat
\* list, a fall followed by a rise of DefaultPeriod steps, a rise that ends
\* in a fall
LongSeries ==
    {[i \in 1..(DefaultPeriod + 1) |-> Int2Rat(i)],
     [i \in 1..(DefaultPeriod + 1) |-> Int2Rat(1)],
     [i \in 1..(DefaultPeriod + 2) |-> IF i = 1 THEN Int2Rat(5) ELSE Int2Rat(i)],
     [i \in 1..(DefaultPeriod + 1) |->
         IF i = DefaultPeriod + 1 THEN Int2Rat(i - 2) ELSE Int2Rat(i)]}

\* the price lists handed to calculate_rsi
RsiSeries ==
    UNION {[1..len -> PriceVals] : len \in 0..MaxRsiLen} \cup LongSeries

\* the days on which the script runs
Todays == {FirstDay}

\* the readings of datetime.now() during one generate_mock_data: midnight
\* may pass after the first roll readings (roll = Days: it does not pass)
Clocks(today) ==
    {[k \in 1..Days |-> IF k > roll THEN today + 1 ELSE today] : roll \in 0..Days}

NoRoll(today) == [k \in 1..Days |-> today]

\* what the exchange-rate API may answer
JsonNumbers == {Num(Int2Rat(v)) : v \in {-1, 0, MaxRate}}

ExchBodies ==
    {[json |-> "invalid", conversion_rates |-> FALSE, inr |-> Absent],
     [json |-> "object", conversion_rates |-> FALSE, inr |-> Absent]}
    \cup {[json |-> "object", conversion_rates |-> TRUE, inr |-> v] :
             v \in JsonNumbers \cup {PyNone, PyStr, Absent}}

NoBody == [json |-> "invalid", conversion_rates |-> FALSE, inr |-> Absent]

\* the answers tried inside get_historical_data: the fetch fails, or it
\* gives a positive rate
NestedExchEnvs ==
    {[key |-> TRUE, http |-> "exception", status |-> 0, body |-> NoBody],
     [key |-> TRUE, http |-> "response", status |-> HTTP_OK,
      body |-> [json |-> "object", conversion_rates |-> TRUE,
                inr |-> Num(Int2Rat(MaxRate))]]}

ExchEnvs ==
    {[key |-> FALSE, http |-> "exception", status |-> 0, body |-> NoBody],
     [key |-> TRUE, http |-> "exception", status |-> 0, body |-> NoBody],
     [key |-> TRUE, http |-> "response", status |-> 503, body |-> NoBody]}
    \cup {[key |-> TRUE, http |-> "response", status |-> HTTP_OK, body |-> b] :
             b \in ExchBodies}

\* what the metals API may answer: the dates of the requested window,
\* start_date = today - days to end_date = today, any of them
Window(today) == {strftime(today - i) : i \in 0..Days}

Quotes == {Num(Int2Rat(v)) : v \in {-1, 0, MaxQuote}}

\* a dict with one key, and the empty dict
Dict(key, value) == [k \in {key} |-> value]
EmptyDict == [k \in {} |-> PyNone]

\* one date of the answer to a request for symbol: the direct quote (a
\* number or null), or the inverse quote (a number or null), or neither
Entries(symbol) ==
    {Dict(UsdSymbol(symbol), v) : v \in Quotes \cup {PyNone}}
    \cup {Dict(symbol, v) : v \in (Quotes \ {Num(Int2Rat(-1))}) \cup {PyNone}}
    \cup {EmptyDict}

NoRates == [json |-> "invalid", success |-> "missing", rates |-> FALSE, by_date |-> <<>>]

FailedBodies ==
    {NoRates,
     [json |-> "object", success |-> "missing", rates |-> FALSE, by_date |-> <<>>],
     [json |-> "object", success |-> "false", rates |-> FALSE, by_date |-> <<>>],
     [json |-> "object", success |-> "true", rates |-> FALSE, by_date |-> <<>>]}

NoExch == [key |-> FALSE, http |-> "exception", status |-> 0, body |-> NoBody]

\* the exchange-rate API is asked only for INR
ExchFor(currency) == IF currency = "INR" THEN NestedExchEnvs ELSE {NoExch}

\* the calls of get_historical_data that end before the rates are read
FailedHistEnvs(today) ==
    {[key |-> k.key, today |-> today, http |-> k.http, status |-> k.status,
      body |-> k.body, exch |-> NoExch, clock |-> c] :
         k \in {[key |-> FALSE, http |-> "exception", status |-> 0, body |-> NoRates],
                [key |-> TRUE, http |-> "exception", status |-> 0, body |-> NoRates],
                [key |-> TRUE, http |-> "response", status |-> 503, body |-> NoRates]}
               \cup {[key |-> TRUE, http |-> "response", status |-> HTTP_OK, body |-> b] :
                        b \in FailedBodies},
         c \in Clocks(today)}

\* a call that reads the rates by_date, with exchange-rate answer exch
LiveHistEnv(today, by_date, exch) ==
    [key |-> TRUE, today |-> today, http |-> "response", status |-> HTTP_OK,
     body |-> [json |-> "object", success |-> "true", rates |-> TRUE,
               by_date |-> by_date],
     exch |-> exch, clock |-> NoRoll(today)]

\* what the Cerebras SDK may do
NoExc == [type |-> "none", msg |-> ""]

SdkOutcomes ==
    {[outcome |-> "raise", exc |-> [type |-> t, msg |-> m],
      has_choices |-> FALSE, choices |-> <<>>] :
         t \in {"NameError", "ImportError", "APIConnectionError"},
         m \in {"pydantic is not defined", "Pydantic is not defined",
                "connection refused"}}
    \cup {[outcome |-> "response", exc |-> NoExc, has_choices |-> FALSE,
           choices |-> <<>>]}
    \cup {[outcome |-> "response", exc |-> NoExc, has_choices |-> TRUE,
           choices |-> c] :
             c \in UNION {[1..len -> {PyStr, Absent}] : len \in 0..MaxChoices}}

\* the arguments of save_alert_history: the metal, one price and one alert
\* type, and a timestamp given as text or as the datetime object itself
HistoryMetals == {Str("gold"), Str("silver")}
HistoryPrice == Float("2050.5")
HistoryAlertType == Str("drop")
Timestamps == {Str("2025-01-01 10:00:00"), Datetime("2025-01-01 10:00:00")}

Permissions == {"ok", "denied"}

FileEnvs == [read : Permissions, write : Permissions]

\* alert_history.json before the first call: missing, zero bytes, or "[]"
StartFiles == {Missing, ZeroBytes, FileWith("array", <<>>)}

\* the save_alert_history calls that may be in progress at once
Writers == 1..MaxWriters

\* a writer between two calls
Idle == [pc |-> "idle", history |-> <<>>, ret |-> FALSE]

NoAudit == [appended |-> <<>>, overlapped |-> FALSE, calls |-> 0]

---------------------------------------------------------------------------
(* The calls.                                                              *)

NoArgs == [none |-> TRUE]

Init ==
    /\ pc = "idle"
    /\ fn = "none"
    /\ args = NoArgs
    /\ ret = NoArgs
    /\ file = Missing
    /\ writers = [w \in Writers |-> Idle]
    /\ audit = NoAudit

CallCalculateStats ==
    /\ pc = "idle"
    /\ \E price \in PriceSeries :
          /\ args' = [price |-> price]
          /\ ret' = Return(calculate_stats(price), <<>>)
    /\ fn' = "calculate_stats"
    /\ pc' = "returned"
    /\ UNCHANGED store

CallGetTrend ==
    /\ pc = "idle"
    /\ \E change_pct \in TrendPcts :
          /\ args' = [change_pct |-> change_pct]
          /\ ret' = Return(get_trend(change_pct), <<>>)
    /\ fn' = "get_trend"
    /\ pc' = "returned"
    /\ UNCHANGED store

CallCheckAlerts ==
    /\ pc = "idle"
    /\ \E metal \in Metals, change_pct \in AlertPcts,
          threshold \in Thresholds, alert_type \in AlertTypes :
          /\ args' = [metal |-> metal, change_pct |-> change_pct,
                      threshold |-> threshold, alert_type |-> alert_type]
          /\ ret' = Return(check_alerts(metal, [change_pct |-> change_pct],
                                        threshold, alert_type), <<>>)
    /\ fn' = "check_alerts"
    /\ pc' = "returned"
    /\ UNCHANGED store

\* the dashboard from the statistics to the progress bar
ShowPricePosition ==
    /\ pc = "idle"
    /\ \E price \in SignedPriceSeries :
          LET stats == calculate_stats(price)
          IN  /\ args' = [price |-> price]
              /\ ret' = Return([stats |-> stats,
                                price_position |-> price_position(stats)], <<>>)
    /\ fn' = "price_position"
    /\ pc' = "returned"
    /\ UNCHANGED store

CallCalculateRsi ==
    /\ pc = "idle"
    /\ \E prices \in RsiSeries, period \in Periods :
          /\ args' = [prices |-> prices, period |-> period]
          /\ ret' = Return(calculate_rsi(prices, period), <<>>)
    /\ fn' = "calculate_rsi"
    /\ pc' = "returned"
    /\ UNCHANGED store

CallGetUsdInrExchangeRate ==
    /\ pc = "idle"
    /\ \E env \in ExchEnvs :
          /\ args' = [env |-> env]
          /\ ret' = get_usd_inr_exchange_rate(env)
    /\ fn' = "get_usd_inr_exchange_rate"
    /\ pc' = "returned"
    /\ UNCHANGED store

CallGenerateMockData ==
    /\ pc = "idle"
    /\ \E metal \in Metals, currency \in Currencies, today \in Todays :
          \E clock \in Clocks(today) :
             /\ args' = [metal |-> metal, currency |-> currency,
                         today |-> today, clock |-> clock]
             /\ ret' = Return(generate_mock_data(metal, currency, clock), <<>>)
    /\ fn' = "generate_mock_data"
    /\ pc' = "returned"
    /\ UNCHANGED store

CallGetHistoricalData ==
    /\ pc = "idle"
    /\ \E metal \in Metals, currency \in Currencies, today \in Todays :
          \/ \E env \in FailedHistEnvs(today) :
                /\ args' = [metal |-> metal, currency |-> currency, env |-> env]
                /\ ret' = get_historical_data(metal, currency, env)
          \/ \E keys \in SUBSET Window(today) :
                \E by_date \in [keys -> Entries(Symbol(metal))], exch \in ExchFor(currency) :
                      LET env == LiveHistEnv(today, by_date, exch)
                      IN  /\ args' = [metal |-> metal, currency |-> currency,
                                      env |-> env]
                          /\ ret' = get_historical_data(metal, currency, env)
    /\ fn' = "get_historical_data"
    /\ pc' = "returned"
    /\ UNCHANGED store

CallGetInsights ==
    /\ pc = "idle"
    /\ \E metal \in Metals, change_pct \in TrendPcts,
          key \in BOOLEAN, sdk \in SdkOutcomes :
          /\ args' = [metal |-> metal, stats |-> [change_pct |-> change_pct],
                      env |-> [key |-> key, sdk |-> sdk]]
          /\ ret' = get_insights_from_cerebras("query", metal,
                                               [change_pct |-> change_pct],
                                               [key |-> key, sdk |-> sdk])
    /\ fn' = "get_insights_from_cerebras"
    /\ pc' = "returned"
    /\ UNCHANGED store

\* the script run ends; the next interaction starts a new one
Rerun ==
    /\ pc # "idle"
    /\ pc' = "idle"
    /\ fn' = "none"
    /\ args' = NoArgs
    /\ ret' = NoArgs
    /\ UNCHANGED store

\* the statistics engine, the trend classifier and the alert evaluator
NextAnalytics ==
    \/ CallCalculateStats
    \/ CallGetTrend
    \/ CallCheckAlerts
    \/ ShowPricePosition
    \/ CallCalculateRsi
    \/ Rerun

SpecAnalytics == Init /\ [][NextAnalytics]_vars

\* the providers
Next ==
    \/ CallGetUsdInrExchangeRate
    \/ CallGenerateMockData
    \/ CallGetInsights
    \/ CallGetHistoricalData
    \/ Rerun

Spec == Init /\ [][Next]_vars

---------------------------------------------------------------------------
(* The alert history, one call at a time.                                  *)

InitHistory ==
    /\ pc = "idle"
    /\ fn = "none"
    /\ args = NoArgs
    /\ ret = NoArgs
    /\ file \in StartFiles
    /\ writers = [w \in Writers |-> Idle]
    /\ audit = NoAudit

CallSaveAlertHistory ==
    /\ pc = "idle"
    /\ Len(file.items) < MaxRecords
    /\ \E metal \in HistoryMetals, timestamp \in Timestamps, env \in FileEnvs :
          LET out == save_alert_history(file, metal, HistoryPrice,
                                        HistoryAlertType, timestamp, env)
          IN  /\ args' = [record |-> record(metal, HistoryPrice,
                                            HistoryAlertType, timestamp),
                          env |-> env]
              /\ ret' = out.ret
              /\ file' = out.file
    /\ fn' = "save_alert_history"
    /\ pc' = "returned"
    /\ UNCHANGED <<writers, audit>>

CallLoadAlertHistory ==
    /\ pc = "idle"
    /\ \E env \in FileEnvs :
          /\ args' = [env |-> env]
          /\ ret' = load_alert_history(file, env)
    /\ fn' = "load_alert_history"
    /\ pc' = "returned"
    /\ UNCHANGED store

NextHistory ==
    \/ CallSaveAlertHistory
    \/ CallLoadAlertHistory
    \/ Rerun

SpecHistory == InitHistory /\ [][NextHistory]_vars

---------------------------------------------------------------------------
(* The alert history, several calls in progress at once.  Each call takes  *)
(* three steps: it reads the file (lines 53-64), opens it for writing,     *)
(* which truncates it (line 66), and dumps its list (line 67).             *)

\* a call is in progress: it has read the file and has not returned
InProgress(w) == writers[w].pc \in {"read", "opened"}

\* lines 53-64: the call starts, reads the file and appends to its list
WriterRead(w) ==
    /\ writers[w].pc = "idle"
    /\ audit.calls < MaxCalls
    /\ \E metal \in HistoryMetals, timestamp \in Timestamps,
          read \in Permissions :
          LET rd == read_history(file, [read |-> read, write |-> "ok"])
          IN  writers' =
                [writers EXCEPT ![w] =
                    IF rd.kind = "raise"
                    THEN [pc |-> "returned", history |-> <<>>, ret |-> FALSE]
                    ELSE [pc |-> "read",
                          history |-> Append(rd.value,
                                             record(metal, HistoryPrice,
                                                    HistoryAlertType,
                                                    timestamp)),
                          ret |-> FALSE]]
    /\ audit' = [audit EXCEPT
                   !.calls = @ + 1,
                   !.overlapped = @ \/ \E v \in Writers \ {w} : InProgress(v)]
    /\ UNCHANGED <<pc, fn, args, ret, file>>

\* line 66: open(history_file, 'w')
WriterOpen(w) ==
    /\ writers[w].pc = "read"
    /\ \E write \in Permissions :
          LET op == open_for_writing(file, [read |-> "ok", write |-> write])
          IN  /\ file' = op.file
              /\ writers' =
                    [writers EXCEPT ![w] =
                        IF op.kind = "raise"
                        THEN [pc |-> "returned", history |-> <<>>, ret |-> FALSE]
                        ELSE [@ EXCEPT !.pc = "opened"]]
    /\ UNCHANGED <<pc, fn, args, ret, audit>>

\* lines 67-72: json.dump, the end of the with block, and the return
WriterDump(w) ==
    /\ writers[w].pc = "opened"
    /\ LET history == writers[w].history
           wr == dump_history(file, history)
       IN  /\ file' = wr.file
           /\ writers' = [writers EXCEPT ![w] =
                            [pc |-> "returned", history |-> <<>>,
                             ret |-> wr.kind = "return"]]
           /\ audit' = IF wr.kind = "return"
                       THEN [audit EXCEPT
                               !.appended = Append(@, history[Len(history)])]
                       ELSE audit
    /\ UNCHANGED <<pc, fn, args, ret>>

\* the caller has the result; the writer may make its next call
WriterDone(w) ==
    /\ writers[w].pc = "returned"
    /\ writers' = [writers EXCEPT ![w] = Idle]
    /\ UNCHANGED <<pc, fn, args, ret, file, audit>>

NextWriters ==
    \E w \in Writers :
       \/ WriterRead(w)
       \/ WriterOpen(w)
       \/ WriterDump(w)
       \/ WriterDone(w)

SpecWriters == InitHistory /\ [][NextWriters]_vars

---------------------------------------------------------------------------
(* Properties.                                                             *)

Returned(f) == pc = "returned" /\ fn = f

Fired(direction) == [fired |-> TRUE, direction |-> direction]
NotFired == [fired |-> FALSE, direction |-> "None"]

\* C1: with a threshold > 0, check_alerts in mode 'Price Drop' fires 'drop'
\* exactly when change_pct <= -threshold, in mode 'Price Rise' fires 'rise'
\* exactly when change_pct >= threshold, and in mode 'Both' returns 'drop'
\* when change_pct <= -threshold, 'rise' when change_pct >= threshold and
\* does not fire otherwise (threshold 5: -5 fires drop, 5 fires rise, -4.9
\* does not fire); 'Price Drop' never reports 'rise' and 'Price Rise'
\* never reports 'drop'.
C1_AlertRule ==
    Returned("check_alerts") =>
        LET drop == RLe(args.change_pct, RNeg(args.threshold))
            rise == RGe(args.change_pct, args.threshold)
            out  == ret.value
        IN  /\ ret.kind = "return"
            /\ RGt(args.threshold, RZero)
            /\ args.alert_type = "Price Drop" =>
                  /\ out = (IF drop THEN Fired("drop") ELSE NotFired)
                  /\ out.direction # "rise"
            /\ args.alert_type = "Price Rise" =>
                  /\ out = (IF rise THEN Fired("rise") ELSE NotFired)
                  /\ out.direction # "drop"
            /\ args.alert_type = "Both" =>
                  out = (IF drop THEN Fired("drop")
                         ELSE IF rise THEN Fired("rise") ELSE NotFired)
            /\ (args.alert_type = "Both" /\ args.threshold = Int2Rat(5)) =>
                  /\ args.change_pct = Int2Rat(-5) => out = Fired("drop")
                  /\ args.change_pct = Int2Rat(5) => out = Fired("rise")
                  /\ args.change_pct = Rat(-49, 10) => out = NotFired

\* C1's case: mode 'Both', threshold 5, change_pct exactly -5 fires 'drop'
C1_Witness ==
    /\ Returned("check_alerts")
    /\ args.alert_type = "Both"
    /\ args.threshold = Int2Rat(5)
    /\ args.change_pct = Int2Rat(-5)
    /\ ret.value = Fired("drop")

TrendLabels == {"Strong Upward", "Upward", "Strong Downward", "Downward", "Stable"}

\* C2: get_trend maps every change_pct to exactly one of the five labels
\* (Strong Upward if > 2, Upward if > 0.5, Strong Downward if < -2,
\* Downward if < -0.5, otherwise Stable), and the boundary inputs 2, 0.5,
\* -0.5 and -2 fall to the less extreme branch.
C2_TrendTotal ==
    Returned("get_trend") =>
        LET x     == args.change_pct
            label == ret.value.label
        IN  /\ ret.kind = "return"
            /\ label \in TrendLabels
            /\ label = "Strong Upward" <=> RGt(x, Int2Rat(2))
            /\ label = "Upward" <=> (RGt(x, Rat(1, 2)) /\ RLe(x, Int2Rat(2)))
            /\ label = "Strong Downward" <=> RLt(x, Int2Rat(-2))
            /\ label = "Downward" <=> (RLt(x, Rat(-1, 2)) /\ RGe(x, Int2Rat(-2)))
            /\ label = "Stable" <=> (RGe(x, Rat(-1, 2)) /\ RLe(x, Rat(1, 2)))
            /\ x = Int2Rat(2) => label = "Upward"
            /\ x = Rat(1, 2) => label = "Stable"
            /\ x = Rat(-1, 2) => label = "Stable"
            /\ x = Int2Rat(-2) => label = "Downward"

\* C2's case: the boundary 2.0 is classified Upward
C2_Witness ==
    /\ Returned("get_trend")
    /\ args.change_pct = Int2Rat(2)
    /\ ret.value.label = "Upward"

\* C3 as stated: change_pct is 0 exactly when price[0] == 0.
C3_ZeroIffFirstZero ==
    Returned("calculate_stats") =>
        (ret.value.change_pct = RZero <=> args.price[1] = RZero)

\* C3, amended: change_pct is 0 when the first price is 0; otherwise it is
\* (last - first) / first * 100, which is 0 exactly when the last price
\* equals the first.
C3_ChangePct ==
    Returned("calculate_stats") =>
        LET first == args.price[1]
            last  == args.price[Len(args.price)]
            pct   == ret.value.change_pct
        IN  /\ ret.kind = "return"
            /\ first = RZero => pct = RZero
            /\ first # RZero =>
                  /\ RMul(pct, first) = RMul(RSub(last, first), Int2Rat(100))
                  /\ pct = RZero <=> last = first

\* C3's case: a series of several prices that ends where it starts,
\* away from 0
C3_Witness ==
    /\ Returned("calculate_stats")
    /\ Len(args.price) > 1
    /\ args.price[1] # RZero
    /\ args.price[Len(args.price)] = args.price[1]
    /\ ret.value.change_pct = RZero

\* the notices of a call that fell back to the mock series
MockNotices ==
    {"METALPRICEAPI_KEY not found", "MetalpriceAPI returned status",
     "MetalpriceAPI Error"}

Shown(out, notice) == \E i \in DOMAIN out.notices : out.notices[i] = notice

\* get_historical_data returned the prices of the API answer
LiveReturned ==
    /\ Returned("get_historical_data")
    /\ ret.kind = "return"
    /\ \A notice \in MockNotices : ~Shown(ret, notice)

\* C4: every series get_historical_data returns has
\* low[i] <= price[i] <= high[i] at every index i.
C4_BandsEnclosePrice ==
    (Returned("get_historical_data") /\ ret.kind = "return") =>
        \A i \in DOMAIN ret.value.price :
            /\ RLe(ret.value.low[i], ret.value.price[i])
            /\ RLe(ret.value.price[i], ret.value.high[i])

\* C5: every series get_historical_data returns has exactly 4 points.
C5_FourPoints ==
    (Returned("get_historical_data") /\ ret.kind = "return") =>
        /\ Len(ret.value.date) = 4
        /\ Len(ret.value.price) = 4

\* the quote of a date as the documentation resolves it: the direct quote if that
\* key is present, otherwise the inverse quote
QuoteOf(entry, symbol) ==
    IF UsdSymbol(symbol) \in DOMAIN entry THEN entry[UsdSymbol(symbol)]
    ELSE IF symbol \in DOMAIN entry THEN entry[symbol]
    ELSE Absent

\* a quote that gives a price: a number other than zero
Usable(quote) == quote.t = "num" /\ quote.v # RZero

\* C6: in a call that returns the API's prices in USD, the dates are in
\* ascending order, each price is the date's direct quote if present and
\* otherwise 1/quote of its inverse quote, and no date with an unusable
\* price (absent, null or zero) appears in the output.
C6_ResolvedPrices ==
    (LiveReturned /\ args.currency = "USD") =>
        LET by_date == args.env.body.by_date
            symbol  == Symbol(args.metal)
            out     == ret.value
        IN  /\ Len(out.date) = Len(out.price)
            /\ \A i, j \in DOMAIN out.date : i < j => StrLt(out.date[i], out.date[j])
            /\ \A j \in DOMAIN out.date :
                  /\ out.date[j] \in DOMAIN by_date
                  /\ Usable(QuoteOf(by_date[out.date[j]], symbol))
                  /\ out.price[j] =
                        (IF UsdSymbol(symbol) \in DOMAIN by_date[out.date[j]]
                         THEN QuoteOf(by_date[out.date[j]], symbol).v
                         ELSE RDiv(Int2Rat(1), QuoteOf(by_date[out.date[j]], symbol).v))

\* a date the resolution drops: a null direct quote, or no direct quote
\* and an inverse quote that is missing or not above zero
DroppedDate(entry, symbol) ==
    IF UsdSymbol(symbol) \in DOMAIN entry THEN entry[UsdSymbol(symbol)] = PyNone
    ELSE \/ symbol \notin DOMAIN entry
         \/ entry[symbol].t = "num" /\ RLe(entry[symbol].v, RZero)

\* a date whose resolution raises: an inverse quote that is no number
UnreadableDate(entry, symbol) ==
    /\ UsdSymbol(symbol) \notin DOMAIN entry
    /\ symbol \in DOMAIN entry
    /\ entry[symbol].t # "num"

\* the failures C7 lists, read off what the environment answered
HistFailure(env, symbol) ==
    \/ ~env.key
    \/ env.http = "exception"
    \/ env.status # HTTP_OK
    \/ env.body.json = "invalid"
    \/ env.body.success # "true"
    \/ ~env.body.rates
    \/ \E d \in DOMAIN env.body.by_date : UnreadableDate(env.body.by_date[d], symbol)
    \/ \A d \in DOMAIN env.body.by_date : DroppedDate(env.body.by_date[d], symbol)

IsSeries(v) ==
    /\ Len(v.date) >= 1
    /\ Len(v.price) = Len(v.date)
    /\ Len(v.high) = Len(v.date)
    /\ Len(v.low) = Len(v.date)

\* C7: get_historical_data never raises and always returns a series; on a
\* missing METALPRICEAPI_KEY, a transport exception, a non-200 status, a
\* missing or false success flag, an exception while parsing the payload,
\* or zero dates left valid, it returns exactly the series of
\* generate_mock_data(metal, currency); and when the currency is INR and
\* the exchange-rate fetch fails, it returns the live prices times 83.5.
C7_AlwaysASeries ==
    Returned("get_historical_data") =>
        LET env == args.env
            usd == get_historical_data(args.metal, "USD", env)
        IN  /\ ret.kind = "return"
            /\ IsSeries(ret.value)
            /\ HistFailure(env, Symbol(args.metal)) =>
                  ret.value = generate_mock_data(args.metal, args.currency, env.clock)
            /\ (/\ ~HistFailure(env, Symbol(args.metal))
                /\ args.currency = "INR"
                /\ (~env.exch.key \/ env.exch.http = "exception"
                      \/ env.exch.status # HTTP_OK)
                /\ \A notice \in MockNotices : ~Shown(usd, notice)) =>
                  /\ ret.value.date = usd.value.date
                  /\ \A j \in DOMAIN ret.value.price :
                        ret.value.price[j] = RMul(usd.value.price[j], FallbackRate)

\* C7's case: the API answers with several dates, none of which resolves
\* to a price, and the call returns the mock series
C7_Witness ==
    /\ Returned("get_historical_data")
    /\ args.env.key
    /\ args.env.http = "response"
    /\ args.env.status = HTTP_OK
    /\ args.env.body.success = "true"
    /\ args.env.body.rates
    /\ Cardinality(DOMAIN args.env.body.by_date) >= 2
    /\ \A d \in DOMAIN args.env.body.by_date :
          DroppedDate(args.env.body.by_date[d], Symbol(args.metal))
    /\ ret.kind = "return"
    /\ ret.value = generate_mock_data(args.metal, args.currency, args.env.clock)

\* C8: generate_mock_data produces exactly 4 consecutive dates in
\* ascending order whose last date is today, the day the clock reads
\* when the list is built.
C8_MockDatesEndToday ==
    (Returned("generate_mock_data") /\ ret.kind = "return") =>
        /\ Len(ret.value.date) = 4
        /\ \A k \in DOMAIN ret.value.date :
              ret.value.date[k] = strftime(args.clock[Len(args.clock)] - (4 - k))

\* the exchange-rate fetch failed: no key, no answer, a status other than
\* 200, or a payload without a positive conversion_rates.INR
ExchFailure(env) ==
    \/ ~env.key
    \/ env.http = "exception"
    \/ env.status # HTTP_OK
    \/ env.body.json = "invalid"
    \/ ~env.body.conversion_rates
    \/ env.body.inr.t # "num"
    \/ RLe(env.body.inr.v, RZero)

\* C9: get_usd_inr_exchange_rate never raises and always returns a
\* positive number: 83.5 on a missing key, an unreachable network, a
\* non-200 response or a malformed payload (also an INR value that is not
\* a positive number), and conversion_rates.INR otherwise.
C9_PositiveRate ==
    Returned("get_usd_inr_exchange_rate") =>
        /\ ret.kind = "return"
        /\ ret.value.t = "num"
        /\ RGt(ret.value.v, RZero)
        /\ ret.value = (IF ExchFailure(args.env) THEN Num(FallbackRate)
                        ELSE args.env.body.inr)

MissingKeyText == Text("CEREBRAS_API_KEY not found. Cannot generate insights.", NoDetail)
InvalidResponseText == Text("Error: Invalid response structure from Cerebras API.", NoDetail)

\* an error string containing the exception text
IsErrorText(v, exc) ==
    v \in {Text("Error querying Cerebras", exc), Text("NameError", exc)}

\* what C10 says of every outcome but an exception with 'pydantic' in its
\* message
InsightsOtherOutcomes ==
    LET sdk == args.env.sdk
    IN  /\ ret.kind = "return"
        /\ ~args.env.key => (ret.value = MissingKeyText /\ ret.notices = <<>>)
        /\ (args.env.key /\ sdk.outcome = "raise"
              /\ ~HasPydantic(StrLower(sdk.exc.msg))) =>
              IsErrorText(ret.value, sdk.exc)
        /\ (args.env.key /\ sdk.outcome = "response"
              /\ (~sdk.has_choices \/ sdk.choices = <<>>)) =>
              ret.value = InvalidResponseText
        /\ (args.env.key /\ sdk.outcome = "response"
              /\ sdk.has_choices /\ sdk.choices # <<>>) =>
              IF sdk.choices[1] = Absent
              THEN ret.value.text = "Error querying Cerebras"
              ELSE ret.value = Text("content", sdk.choices[1])

---------------------------------------------------------------------------
(* Statistics range and price position.                                    *)

\* the statistics of a returned calculate_stats call or progress bar
StatsOf == IF fn = "calculate_stats" THEN ret.value ELSE ret.value.stats

\* C12: for every non-empty price series calculate_stats returns the last
\* price as current, the least price as low and the greatest as high, so
\* low <= current <= high; and the price position (current - low) /
\* (high - low), 0 when high = low, lies in [0, 1].
C12_StatsWithinRange ==
    (Returned("calculate_stats") \/ Returned("price_position")) =>
        LET price == args.price
            stats == StatsOf
        IN  /\ stats.current = price[Len(price)]
            /\ \A i \in DOMAIN price :
                  RLe(stats.low, price[i]) /\ RLe(price[i], stats.high)
            /\ \E i \in DOMAIN price : stats.low = price[i]
            /\ \E i \in DOMAIN price : stats.high = price[i]
            /\ RLe(stats.low, stats.current)
            /\ RLe(stats.current, stats.high)
            /\ fn = "price_position" =>
                  LET pos == ret.value.price_position
                  IN  /\ RLe(RZero, pos)
                      /\ RLe(pos, Int2Rat(1))
                      /\ stats.high = stats.low => pos = RZero
                      /\ stats.high # stats.low =>
                            RMul(pos, RSub(stats.high, stats.low))
                               = RSub(stats.current, stats.low)

\* C12's case: a series that ends strictly between its low and its high,
\* shown strictly inside the progress bar
C12_Witness ==
    /\ Returned("price_position")
    /\ RLt(ret.value.stats.low, ret.value.stats.current)
    /\ RLt(ret.value.stats.current, ret.value.stats.high)
    /\ RLt(RZero, ret.value.price_position)
    /\ RLt(ret.value.price_position, Int2Rat(1))

---------------------------------------------------------------------------
(* Relative Strength Index.                                                *)

\* the sum of the rises prices[i+1] - prices[i] > 0 for i in from..to
RECURSIVE RiseOver(_, _, _)
RiseOver(prices, from, to) ==
    IF from > to THEN RZero
    ELSE IF from = to
    THEN LET d == RSub(prices[to + 1], prices[to])
         IN  IF RGt(d, RZero) THEN d ELSE RZero
    ELSE LET mid == (from + to) \div 2
         IN  RAdd(RiseOver(prices, from, mid), RiseOver(prices, mid + 1, to))

\* the sum of the falls prices[i] - prices[i+1] > 0 for i in from..to
RECURSIVE FallOver(_, _, _)
FallOver(prices, from, to) ==
    IF from > to THEN RZero
    ELSE IF from = to
    THEN LET d == RSub(prices[to], prices[to + 1])
         IN  IF RGt(d, RZero) THEN d ELSE RZero
    ELSE LET mid == (from + to) \div 2
         IN  RAdd(FallOver(prices, from, mid), FallOver(prices, mid + 1, to))

\* C13: calculate_rsi(prices, period) returns None when len(prices) <
\* period + 1; otherwise, over the trailing period deltas only, it returns
\* 100 when the average loss is 0 and else 100 - 100 / (1 + avg_gain /
\* avg_loss), a value in [0, 100).
C13_Rsi ==
    Returned("calculate_rsi") =>
        LET prices == args.prices
            period == args.period
            len    == Len(prices)
        IN  /\ ret.kind = "return"
            /\ len < period + 1 => ret.value = PyNone
            /\ len >= period + 1 =>
                  LET avg_gain == RDiv(RiseOver(prices, len - period, len - 1),
                                       Int2Rat(period))
                      avg_loss == RDiv(FallOver(prices, len - period, len - 1),
                                       Int2Rat(period))
                  IN  /\ ret.value.t = "num"
                      /\ avg_loss = RZero => ret.value.v = Int2Rat(100)
                      /\ avg_loss # RZero =>
                            /\ ret.value.v =
                                  RSub(Int2Rat(100),
                                       RDiv(Int2Rat(100),
                                            RAdd(Int2Rat(1),
                                                 RDiv(avg_gain, avg_loss))))
                            /\ RLe(RZero, ret.value.v)
                            /\ RLt(ret.value.v, Int2Rat(100))
            /\ (prices = [i \in 1..(DefaultPeriod + 1) |-> Int2Rat(i)]
                   /\ period = DefaultPeriod) => ret.value = Num(Int2Rat(100))

\* C13's case: more deltas than the period, the first of them a fall that
\* the trailing window leaves out, and gains and losses inside the window
C13_Witness ==
    /\ Returned("calculate_rsi")
    /\ Len(args.prices) > args.period + 1
    /\ RLt(args.prices[2], args.prices[1])
    /\ ret.value.t = "num"
    /\ RLt(RZero, ret.value.v)
    /\ RLt(ret.value.v, Int2Rat(100))

---------------------------------------------------------------------------
(* Alert history.                                                          *)

\* the records load_alert_history yields from a file it may read
Stored(f) == load_alert_history(f, Readable).value

\* C11: starting from a missing or empty alert_history.json, every
\* successful save_alert_history appends its record to the stored log and
\* leaves the records before it unchanged and in place, so N successful
\* saves are loaded back as N records in insertion order; and a failed save
\* returns False without altering the records already stored.
C11_AppendOnly ==
    [][(pc = "idle" /\ fn' = "save_alert_history") =>
          /\ ret'.kind = "return"
          /\ ret'.value \in BOOLEAN
          /\ ret'.value => Stored(file') = Append(Stored(file), args'.record)
          /\ ~ret'.value => Stored(file') = Stored(file)]_vars

=============================================================================
